---- MODULE Spec2Model ----
(***************************************************************************)
(* Model of task_set/tasks/mlp_vae.py: the MLP VAE task family.            *)
(*                                                                         *)
(*   sample_mlp_vae_family_cfg(seed)  draws a config from a generator      *)
(*                                    seeded inside the call;              *)
(*   get_mlp_vae_family(cfg)          reads the config and returns a task  *)
(*                                    whose _build(batch) assembles the    *)
(*                                    encoder, decoder, prior, ELBO, the   *)
(*                                    metrics and the loss.                *)
(*                                                                         *)
(* Tensors are kept by shape and, for the per-example ELBO terms, as       *)
(* vectors of integers; batch means are exact rationals <<num, den>> in    *)
(* lowest terms, so floating-point rounding is outside the model.          *)
(***************************************************************************)
EXTENDS Integers, Sequences, FiniteSets

VARIABLES
  pc,            \* control position of the caller / the running function
  err,           \* exception that ended the run ("none" while none)
  seed,          \* argument of the running sample_mlp_vae_family_cfg call
  rng,           \* state of the call's own generator (np.random.RandomState)
  globalRng,     \* state of numpy's module-level generator
  cfg,           \* the config dict: a function from its keys to their values
  enc_n_layers,  \* local of the sampler
  dec_n_layers,  \* local of the sampler
  units,         \* the list a comprehension of the sampler is building
  returned,      \* per seed, the configs the caller was handed for it, in order
  reads,         \* the keys get_mlp_vae_family and _build have subscripted
  task,          \* closure of get_mlp_vae_family: act_fn, init, datasets
  flat_img,      \* shape of the flattened image batch, <<batch, dim>>
  latent_size,   \* local of _build
  enc_units,     \* hidden_units handed to the encoder's snt.nets.MLP
  dec_units,     \* hidden_units handed to the decoder's snt.nets.MLP
  prior,         \* parameter tensor of the prior
  log_p_x,       \* per-example reconstruction term
  kl_term,       \* per-example KL term
  metrics,       \* the metrics dict of the last completed build
  loss,          \* the loss of the last completed build
  modules        \* layer widths of every module built so far, oldest first

vars == <<pc, err, seed, rng, globalRng, cfg, enc_n_layers, dec_n_layers,
          units, returned, reads, task, flat_img, latent_size, enc_units,
          dec_units, prior, log_p_x, kl_term, metrics, loss, modules>>

samplerVars == <<seed, rng, enc_n_layers, dec_n_layers, units>>

buildVars == <<task, flat_img, latent_size, enc_units, dec_units, prior,
               log_p_x, kl_term, metrics, loss, modules>>

(***************************************************************************)
(* Bounds of the model.                                                    *)
(***************************************************************************)
\* seeds 0..MaxSeed are passed to the sampler
MaxSeed == 1
\* sample_log_int is taken at WidthSteps + 1 points of its range
WidthSteps == 1
\* caller-supplied configs have at most MaxLayers entries per list
MaxLayers == 2
\* batches hold 1..MaxBatch examples
MaxBatch == 2
\* per-example ELBO terms lie in -MaxMag..MaxMag
MaxMag == 1
\* a task's model is built at most MaxBuilds times
MaxBuilds == 2
\* the sampler is called at most MaxCalls times per seed
MaxCalls == 2

Seeds == 0..MaxSeed

(***************************************************************************)
(* Python values.                                                          *)
(***************************************************************************)
EmptyCfg == [k \in {} |-> 0]

\* cfg[k] = v
Put(c, k, v) == [x \in (DOMAIN c) \cup {k} |-> IF x = k THEN v ELSE c[x]]

\* del cfg[k]
Drop(c, k) == [x \in (DOMAIN c) \ {k} |-> c[x]]

\* seq[-1]
Last(s) == s[Len(s)]

\* seq[:-1]
ButLast(s) == SubSeq(s, 1, Len(s) - 1)

CfgKeys ==
  {"enc_hidden_units", "dec_hidden_units", "activation", "w_init", "dataset"}

NoTask == [act_fn |-> "", init |-> [w |-> ""], datasets |-> [name |-> "", flat_dim |-> 0]]

NoTensor == [shape |-> <<>>, fill |-> 0]

NoMetrics == [k \in {} |-> 0]

NoLoss == <<0, 0>>

(***************************************************************************)
(* The generator.  numpy's RandomState is a deterministic function of its  *)
(* seed; it is modelled by a full-period congruential generator over       *)
(* 0..63 whose output is the upper four bits of its state.                 *)
(***************************************************************************)
RawDraws == 0..15

\* a plausible slip: the generator is not seeded by the argument but shares
\* the state of numpy's module-level generator
SeedFromGlobal(s) == globalRng

\* np.random.RandomState(seed)
SeedRng(s) == (s * 21 + 7) % 64

NextRng(r) == (r * 5 + 3) % 64

RngOutput(r) == r \div 4

\* rng.choice(list), from the raw draw u
Choice(u, list) == list[(u % Len(list)) + 1]

\* utils.sample_log_int(rng, low, high): an integer of low..high; the
\* log-uniform variate is taken on a grid of WidthSteps + 1 points that
\* holds both ends of the range
SampleLogInt(u, low, high) ==
  low + ((high - low) * (u % (WidthSteps + 1))) \div WidthSteps

Activations == <<"relu", "tanh">>

Initializers == <<"he_normal", "glorot_uniform">>

ImageDatasets == <<"mnist", "cifar10">>

\* utils.sample_activation(rng)
SampleActivation(u) == Choice(u, Activations)

\* utils.sample_initializer(rng)
SampleInitializer(u) == Choice(u, Initializers)

\* utils.sample_image_dataset(rng)
SampleImageDataset(u) == Choice(u, ImageDatasets)

\* a plausible slip: range(5) instead of the list [1, 2, 3, 4]
EncLayerChoicesFromZero == <<0, 1, 2, 3, 4>>

\* the list enc_n_layers is chosen from
EncLayerChoices == <<1, 2, 3, 4>>

\* a plausible slip: the encoder's list copied to the decoder
DecLayerChoicesAsEnc == <<1, 2, 3, 4>>

\* the list dec_n_layers is chosen from
DecLayerChoices == <<1, 2, 3>>

LogIntLow == 32

LogIntHigh == 128

(***************************************************************************)
(* Initial state: nothing has been called.                                 *)
(***************************************************************************)
Init ==
  /\ pc = "idle"
  /\ err = "none"
  /\ seed = 0
  /\ rng = 0
  /\ globalRng = 0
  /\ cfg = EmptyCfg
  /\ enc_n_layers = 0
  /\ dec_n_layers = 0
  /\ units = <<>>
  /\ returned = [s \in Seeds |-> <<>>]
  /\ reads = {}
  /\ task = NoTask
  /\ flat_img = <<>>
  /\ latent_size = 0
  /\ enc_units = <<>>
  /\ dec_units = <<>>
  /\ prior = NoTensor
  /\ log_p_x = <<>>
  /\ kl_term = <<>>
  /\ metrics = NoMetrics
  /\ loss = NoLoss
  /\ modules = <<>>

(***************************************************************************)
(* sample_mlp_vae_family_cfg(seed).  Every step that draws takes the raw   *)
(* draw u and the state r the draw leaves the generator in; the            *)
(* specifications below say where they come from.                          *)
(***************************************************************************)
\* the call: rng = np.random.RandomState(seed); cfg = {}
CallSampler(s) ==
  /\ pc = "idle"
  /\ Len(returned[s]) < MaxCalls
  /\ seed' = s
  /\ rng' = SeedRng(s)
  /\ cfg' = EmptyCfg
  /\ enc_n_layers' = 0
  /\ dec_n_layers' = 0
  /\ units' = <<>>
  /\ pc' = "enc_n"
  /\ UNCHANGED <<err, globalRng, returned, reads>>
  /\ UNCHANGED buildVars

\* enc_n_layers = rng.choice([1, 2, 3, 4])
SampleEncN(u, r) ==
  /\ pc = "enc_n"
  /\ rng' = r
  /\ LET n == Choice(u, EncLayerChoices) IN
       /\ enc_n_layers' = n
       /\ units' = <<>>
       /\ IF n = 0
            THEN cfg' = Put(cfg, "enc_hidden_units", <<>>) /\ pc' = "dec_n"
            ELSE cfg' = cfg /\ pc' = "enc_units"
  /\ UNCHANGED <<err, seed, globalRng, dec_n_layers, returned, reads>>
  /\ UNCHANGED buildVars

\* one turn of [utils.sample_log_int(rng, 32, 128) for _ in range(enc_n_layers)]
SampleEncUnit(u, r) ==
  /\ pc = "enc_units"
  /\ rng' = r
  /\ Len(units) < enc_n_layers
  /\ LET list == Append(units, SampleLogInt(u, LogIntLow, LogIntHigh)) IN
       IF Len(list) = enc_n_layers
         THEN /\ cfg' = Put(cfg, "enc_hidden_units", list)
              /\ units' = <<>>
              /\ pc' = "dec_n"
         ELSE /\ cfg' = cfg
              /\ units' = list
              /\ pc' = "enc_units"
  /\ UNCHANGED <<err, seed, globalRng, enc_n_layers, dec_n_layers, returned, reads>>
  /\ UNCHANGED buildVars

\* dec_n_layers = rng.choice([1, 2, 3])
SampleDecN(u, r) ==
  /\ pc = "dec_n"
  /\ rng' = r
  /\ LET n == Choice(u, DecLayerChoices) IN
       /\ dec_n_layers' = n
       /\ units' = <<>>
       /\ IF n = 0
            THEN cfg' = Put(cfg, "dec_hidden_units", <<>>) /\ pc' = "activation"
            ELSE cfg' = cfg /\ pc' = "dec_units"
  /\ UNCHANGED <<err, seed, globalRng, enc_n_layers, returned, reads>>
  /\ UNCHANGED buildVars

\* one turn of [utils.sample_log_int(rng, 32, 128) for _ in range(dec_n_layers)]
SampleDecUnit(u, r) ==
  /\ pc = "dec_units"
  /\ rng' = r
  /\ Len(units) < dec_n_layers
  /\ LET list == Append(units, SampleLogInt(u, LogIntLow, LogIntHigh)) IN
       IF Len(list) = dec_n_layers
         THEN /\ cfg' = Put(cfg, "dec_hidden_units", list)
              /\ units' = <<>>
              /\ pc' = "activation"
         ELSE /\ cfg' = cfg
              /\ units' = list
              /\ pc' = "dec_units"
  /\ UNCHANGED <<err, seed, globalRng, enc_n_layers, dec_n_layers, returned, reads>>
  /\ UNCHANGED buildVars

\* cfg["activation"] = utils.sample_activation(rng)
SampleAct(u, r) ==
  /\ pc = "activation"
  /\ rng' = r
  /\ cfg' = Put(cfg, "activation", SampleActivation(u))
  /\ pc' = "w_init"
  /\ UNCHANGED <<err, seed, globalRng, enc_n_layers, dec_n_layers, units, returned, reads>>
  /\ UNCHANGED buildVars

\* cfg["w_init"] = utils.sample_initializer(rng)
SampleInit(u, r) ==
  /\ pc = "w_init"
  /\ rng' = r
  /\ cfg' = Put(cfg, "w_init", SampleInitializer(u))
  /\ pc' = "dataset"
  /\ UNCHANGED <<err, seed, globalRng, enc_n_layers, dec_n_layers, units, returned, reads>>
  /\ UNCHANGED buildVars

\* cfg["dataset"] = utils.sample_image_dataset(rng); return cfg
\* (the call's locals other than the returned dict are gone)
SampleDataset(u, r) ==
  /\ pc = "dataset"
  /\ rng' = r
  /\ cfg' = Put(cfg, "dataset", SampleImageDataset(u))
  /\ enc_n_layers' = 0
  /\ dec_n_layers' = 0
  /\ pc' = "have_cfg"
  /\ UNCHANGED <<err, seed, globalRng, units, returned, reads>>
  /\ UNCHANGED buildVars

\* the sampler's drawing steps, on the raw draw u, leaving the generator in r
SamplerStep(u, r) ==
  \/ SampleEncN(u, r)
  \/ SampleEncUnit(u, r)
  \/ SampleDecN(u, r)
  \/ SampleDecUnit(u, r)
  \/ SampleAct(u, r)
  \/ SampleInit(u, r)
  \/ SampleDataset(u, r)

(***************************************************************************)
(* What the caller may do with a sampled config, and the configs a caller  *)
(* may hand to get_mlp_vae_family directly.                                *)
(***************************************************************************)
\* the caller keeps the config it was handed for the seed
Record ==
  /\ pc = "have_cfg"
  /\ returned' = [returned EXCEPT ![seed] = Append(@, cfg)]
  /\ pc' = "idle"
  /\ UNCHANGED <<err, cfg, globalRng, reads>>
  /\ UNCHANGED samplerVars
  /\ UNCHANGED buildVars

\* some other code draws from numpy's module-level generator
OtherDraw ==
  /\ pc = "idle"
  /\ globalRng' = NextRng(globalRng)
  /\ UNCHANGED <<pc, err, cfg, returned, reads>>
  /\ UNCHANGED samplerVars
  /\ UNCHANGED buildVars

\* the caller has a config c of its own
SupplyCfg(c) ==
  /\ pc = "idle"
  /\ cfg' = c
  /\ pc' = "have_cfg"
  /\ UNCHANGED <<err, globalRng, returned, reads>>
  /\ UNCHANGED samplerVars
  /\ UNCHANGED buildVars

Elements(list) == {list[i] : i \in 1..Len(list)}

InputWidths == {LogIntLow, LogIntHigh}

InputLists == UNION {[1..k -> InputWidths] : k \in 0..MaxLayers}

\* configs with all five keys; either list may be empty, and the three
\* identifiers are taken together, the i-th of each
FullCfgs ==
  {[enc_hidden_units |-> e, dec_hidden_units |-> d,
    activation |-> Activations[i], w_init |-> Initializers[i],
    dataset |-> ImageDatasets[i]] :
      e \in InputLists, d \in InputLists, i \in 1..Len(Activations)}

\* ... and the same with one key missing
InputCfgs == FullCfgs \cup {Drop(c, k) : c \in FullCfgs, k \in CfgKeys}

\* the configs the loss is studied on
LossCfgs == {c \in FullCfgs : c.enc_hidden_units = <<LogIntLow>>
                              /\ c.dec_hidden_units = <<LogIntHigh>>}

(***************************************************************************)
(* Helpers of get_mlp_vae_family.                                          *)
(***************************************************************************)
\* utils.get_activation(name): the activation function of that name
GetActivation(name) == [fn |-> name]

\* utils.get_initializer(name): the initializer of that name
GetInitializer(name) == [initializer |-> name]

\* utils.get_image_dataset(name): the dataset, with the size of one
\* flattened image (28 * 28 * 1 and 32 * 32 * 3)
GetImageDataset(name) ==
  [name |-> name,
   flat_dim |-> CASE name = "mnist" -> 784
                  [] name = "cifar10" -> 3072
                  [] OTHER -> 1]

\* a plausible slip: a default latent size for an empty list
IndexLastOrDefault(list) ==
  [ok |-> TRUE, val |-> IF Len(list) > 0 THEN Last(list) ELSE LogIntLow]

\* list[-1]: IndexError on an empty list
IndexLast(list) ==
  [ok |-> Len(list) > 0, val |-> IF Len(list) > 0 THEN Last(list) ELSE 0]

\* a plausible slip: the whole list kept in front of the output layer
EncoderUnitsKeepLast(c, latent) == c.enc_hidden_units \o <<latent * 2>>

\* cfg["enc_hidden_units"][:-1] + [latent_size * 2]
EncoderUnits(c, latent) == ButLast(c.enc_hidden_units) \o <<latent * 2>>

\* a plausible slip: one output per pixel value instead of two
DecoderUnitsOnePerPixel(c, dim) == c.dec_hidden_units \o <<dim>>

\* cfg["dec_hidden_units"] + [flat_img.shape.as_list()[1] * 2]
DecoderUnits(c, dim) == c.dec_hidden_units \o <<dim * 2>>

\* a plausible slip: the prior as wide as the latent, not as the encoder output
ZshapeLatent(n, latent) == <<n, latent>>

\* tf.stack([tf.shape(flat_img)[0], 2 * latent_size])
Zshape(n, latent) == <<n, 2 * latent>>

\* tf.zeros(shape)
Zeros(shape) == [shape |-> shape, fill |-> 0]

(***************************************************************************)
(* Arithmetic of the loss: exact rationals in lowest terms.                *)
(***************************************************************************)
Abs(x) == IF x < 0 THEN -x ELSE x

RECURSIVE GCD(_, _)
GCD(a, b) == IF b = 0 THEN a ELSE GCD(b, a % b)

Rat(num, den) ==
  LET g == GCD(Abs(num), den) IN <<num \div g, den \div g>>

RatNeg(r) == <<-r[1], r[2]>>

RatSub(a, b) == Rat(a[1] * b[2] - b[1] * a[2], a[2] * b[2])

RECURSIVE Sum(_)
Sum(v) == IF Len(v) = 0 THEN 0 ELSE Head(v) + Sum(Tail(v))

\* tf.reduce_mean(v) of a vector with at least one entry
ReduceMean(v) == Rat(Sum(v), Len(v))

\* tf.log(x): the logarithm of a positive x, -inf at 0, nan below
Log(x) ==
  [of |-> x,
   is |-> IF x[1] > 0 THEN "finite" ELSE IF x[1] = 0 THEN "-inf" ELSE "nan"]

\* a plausible slip: the KL term added instead of subtracted
ElboSum(lp, kl) == [i \in 1..Len(lp) |-> lp[i] + kl[i]]

\* elbo = log_p_x - kl_term, per example
Elbo(lp, kl) == [i \in 1..Len(lp) |-> lp[i] - kl[i]]

\* the metrics dict of _build
Metrics(lp, kl) ==
  [kl_term |-> ReduceMean(kl),
   log_kl_term |-> Log(ReduceMean(kl)),
   log_p_x |-> ReduceMean(lp),
   elbo |-> ReduceMean(Elbo(lp, kl)),
   log_neg_log_p_x |-> Log(RatNeg(ReduceMean(Elbo(lp, kl))))]

\* the loss of _build
Loss(lp, kl) == RatNeg(ReduceMean(Elbo(lp, kl)))

(***************************************************************************)
(* get_mlp_vae_family(cfg) and the _build of the task it returns.          *)
(***************************************************************************)
\* get_mlp_vae_family(cfg): the three subscripts, in order, then the task
GetMlpVaeFamily ==
  /\ pc = "have_cfg"
  /\ IF "activation" \notin DOMAIN cfg
       THEN /\ reads' = reads \cup {"activation"}
            /\ pc' = "error" /\ err' = "KeyError" /\ task' = task
       ELSE IF "w_init" \notin DOMAIN cfg
       THEN /\ reads' = reads \cup {"activation", "w_init"}
            /\ pc' = "error" /\ err' = "KeyError" /\ task' = task
       ELSE IF "dataset" \notin DOMAIN cfg
       THEN /\ reads' = reads \cup {"activation", "w_init", "dataset"}
            /\ pc' = "error" /\ err' = "KeyError" /\ task' = task
       ELSE /\ reads' = reads \cup {"activation", "w_init", "dataset"}
            /\ task' = [act_fn |-> GetActivation(cfg.activation),
                        init |-> [w |-> GetInitializer(cfg.w_init)],
                        datasets |-> GetImageDataset(cfg.dataset)]
            /\ pc' = "task" /\ err' = err
  /\ UNCHANGED <<cfg, globalRng, returned>>
  /\ UNCHANGED samplerVars
  /\ UNCHANGED <<flat_img, latent_size, enc_units, dec_units, prior,
                 log_p_x, kl_term, metrics, loss, modules>>

\* _build(batch) entered from position at, on a batch of n examples:
\* flat_img = snt.BatchFlatten()(batch["image"]);
\* latent_size = cfg["enc_hidden_units"][-1]
BuildFrom(at, n) ==
  /\ pc = at
  /\ flat_img' = <<n, task.datasets.flat_dim>>
  /\ enc_units' = <<>>
  /\ dec_units' = <<>>
  /\ prior' = NoTensor
  /\ log_p_x' = <<>>
  /\ kl_term' = <<>>
  /\ reads' = reads \cup {"enc_hidden_units"}
  /\ IF "enc_hidden_units" \notin DOMAIN cfg
       THEN pc' = "error" /\ err' = "KeyError" /\ latent_size' = 0
       ELSE LET last == IndexLast(cfg.enc_hidden_units) IN
              IF last.ok
                THEN pc' = "b_prior" /\ err' = err /\ latent_size' = last.val
                ELSE pc' = "error" /\ err' = "IndexError" /\ latent_size' = 0
  /\ UNCHANGED <<cfg, globalRng, returned, task, metrics, loss, modules>>
  /\ UNCHANGED samplerVars

\* the task's model is built for the first time
BuildStart(n) == BuildFrom("task", n)

\* the task's model is built again
Rebuild(n) ==
  /\ Len(modules) < MaxBuilds
  /\ BuildFrom("built", n)

\* zshape = tf.stack(...); prior = LogStddevNormal(tf.zeros(shape=zshape))
BuildPrior ==
  /\ pc = "b_prior"
  /\ prior' = Zeros(Zshape(flat_img[1], latent_size))
  /\ pc' = "b_encoder"
  /\ UNCHANGED <<err, cfg, globalRng, returned, reads, task, flat_img,
                 latent_size, enc_units, dec_units, log_p_x, kl_term,
                 metrics, loss, modules>>
  /\ UNCHANGED samplerVars

\* encoder_fn(net), called by log_prob_elbo_components
EncoderFn ==
  /\ pc = "b_encoder"
  /\ reads' = reads \cup {"enc_hidden_units"}
  /\ enc_units' = EncoderUnits(cfg, latent_size)
  /\ pc' = "b_decoder"
  /\ UNCHANGED <<err, cfg, globalRng, returned, task, flat_img, latent_size,
                 dec_units, prior, log_p_x, kl_term, metrics, loss, modules>>
  /\ UNCHANGED samplerVars

\* a plausible slip: the output layer appended to the config's own list
DecoderFnInPlace ==
  /\ pc = "b_decoder"
  /\ reads' = reads \cup {"dec_hidden_units"}
  /\ IF "dec_hidden_units" \notin DOMAIN cfg
       THEN pc' = "error" /\ err' = "KeyError" /\ dec_units' = dec_units
            /\ cfg' = cfg
       ELSE /\ pc' = "b_elbo" /\ err' = err
            /\ dec_units' = DecoderUnits(cfg, flat_img[2])
            /\ cfg' = [cfg EXCEPT !["dec_hidden_units"] = DecoderUnits(cfg, flat_img[2])]
  /\ UNCHANGED <<globalRng, returned, task, flat_img, latent_size,
                 enc_units, prior, log_p_x, kl_term, metrics, loss, modules>>
  /\ UNCHANGED samplerVars

\* decoder_fn(net), called by log_prob_elbo_components after the encoder
DecoderFn ==
  /\ pc = "b_decoder"
  /\ reads' = reads \cup {"dec_hidden_units"}
  /\ IF "dec_hidden_units" \notin DOMAIN cfg
       THEN pc' = "error" /\ err' = "KeyError" /\ dec_units' = dec_units
       ELSE /\ pc' = "b_elbo" /\ err' = err
            /\ dec_units' = DecoderUnits(cfg, flat_img[2])
  /\ UNCHANGED <<cfg, globalRng, returned, task, flat_img, latent_size,
                 enc_units, prior, log_p_x, kl_term, metrics, loss, modules>>
  /\ UNCHANGED samplerVars

\* log_p_x, kl_term = generative_utils.log_prob_elbo_components(...):
\* one value per example, the terms taken from LP and KL
ElboComponents(LP, KL) ==
  /\ pc = "b_elbo"
  /\ \E lp \in [1..flat_img[1] -> LP], kl \in [1..flat_img[1] -> KL] :
       /\ log_p_x' = lp
       /\ kl_term' = kl
  /\ pc' = "b_return"
  /\ UNCHANGED <<err, cfg, globalRng, returned, reads, task, flat_img,
                 latent_size, enc_units, dec_units, prior, metrics, loss,
                 modules>>
  /\ UNCHANGED samplerVars

\* elbo, metrics and return base.LossAndAux(-tf.reduce_mean(elbo), metrics)
BuildReturn ==
  /\ pc = "b_return"
  /\ metrics' = Metrics(log_p_x, kl_term)
  /\ loss' = Loss(log_p_x, kl_term)
  /\ modules' = Append(modules, [encoder |-> enc_units, decoder |-> dec_units])
  /\ pc' = "built"
  /\ UNCHANGED <<err, cfg, globalRng, returned, reads, task, flat_img,
                 latent_size, enc_units, dec_units, prior, log_p_x, kl_term>>
  /\ UNCHANGED samplerVars

(***************************************************************************)
(* Specifications.                                                         *)
(*   Spec       a config is sampled, then got and built; every draw may   *)
(*              return any raw value, the generator's state being left     *)
(*              out of account;                                            *)
(*   SpecBuild  the caller supplies the config, well-formed or not, and    *)
(*              builds the task's model repeatedly;                        *)
(*   SpecLoss   one config, every batch of per-example ELBO terms;         *)
(*   SpecSeed   the sampler on the seeded generator, called repeatedly     *)
(*              with other draws in between.                               *)
(***************************************************************************)
Magnitudes == (0 - MaxMag)..MaxMag

BatchSizes == 1..MaxBatch

Next ==
  \/ \E s \in Seeds : CallSampler(s)
  \/ \E u \in RawDraws : SamplerStep(u, rng)
  \/ GetMlpVaeFamily
  \/ BuildStart(1)
  \/ BuildPrior
  \/ EncoderFn
  \/ DecoderFn
  \/ ElboComponents({-1}, {1})
  \/ BuildReturn

Spec == Init /\ [][Next]_vars

NextBuild ==
  \/ \E c \in InputCfgs : SupplyCfg(c)
  \/ GetMlpVaeFamily
  \/ \E n \in BatchSizes : BuildStart(n)
  \/ \E n \in BatchSizes : Rebuild(n)
  \/ BuildPrior
  \/ EncoderFn
  \/ DecoderFn
  \/ ElboComponents({-1}, {1})
  \/ BuildReturn

SpecBuild == Init /\ [][NextBuild]_vars

NextLoss ==
  \/ \E c \in LossCfgs : SupplyCfg(c)
  \/ GetMlpVaeFamily
  \/ \E n \in BatchSizes : BuildStart(n)
  \/ BuildPrior
  \/ EncoderFn
  \/ DecoderFn
  \/ ElboComponents(Magnitudes, Magnitudes)
  \/ BuildReturn

SpecLoss == Init /\ [][NextLoss]_vars

NextSeed ==
  \/ \E s \in Seeds : CallSampler(s)
  \/ SamplerStep(RngOutput(rng), NextRng(rng))
  \/ Record
  \/ OtherDraw

SpecSeed == Init /\ [][NextSeed]_vars

(***************************************************************************)
(* Properties.                                                             *)
(***************************************************************************)
\* positions at which the caller holds a config and may have used it
HoldsCfg ==
  pc \in {"have_cfg", "task", "b_prior", "b_encoder", "b_decoder", "b_elbo",
          "b_return", "built", "error"}

MetricKeys == {"kl_term", "log_kl_term", "log_p_x", "elbo", "log_neg_log_p_x"}

\* a config missing one of the five keys, or with an empty encoder list
Malformed(c) ==
  \/ \E k \in CfgKeys : k \notin DOMAIN c
  \/ "enc_hidden_units" \in DOMAIN c /\ Len(c.enc_hidden_units) = 0

\* C1: a config returned by sample_mlp_vae_family_cfg has exactly the five
\* keys enc_hidden_units, dec_hidden_units, activation, w_init and dataset,
\* its enc_hidden_units is not empty, get_mlp_vae_family and _build read no
\* other key (and, once built, have read all five), and no step of getting
\* and building it raises.
C1_SampledCfgDecodable ==
  HoldsCfg =>
    /\ DOMAIN cfg = CfgKeys
    /\ Len(cfg.enc_hidden_units) >= 1
    /\ reads \subseteq DOMAIN cfg
    /\ (pc = "built" => reads = CfgKeys)
    /\ pc # "error"
    /\ err = "none"

\* C1's case: a sampled config with a single encoder entry has been built
C1_Witness ==
  /\ pc = "built"
  /\ reads = CfgKeys
  /\ Len(cfg.enc_hidden_units) = 1
  /\ latent_size = cfg.enc_hidden_units[1]

\* C2: the config returned by sample_mlp_vae_family_cfg has 1 to 4 encoder
\* entries and 1 to 3 decoder entries, each an integer of 32..128.
C2_SampledListsInRange ==
  pc = "have_cfg" =>
    /\ Len(cfg.enc_hidden_units) \in 1..4
    /\ Len(cfg.dec_hidden_units) \in 1..3
    /\ \A w \in Elements(cfg.enc_hidden_units) \cup Elements(cfg.dec_hidden_units) :
         w \in 32..128

\* C2's case: the longest lists, holding both ends of the range
C2_Witness ==
  /\ pc = "have_cfg"
  /\ Len(cfg.enc_hidden_units) = 4
  /\ Len(cfg.dec_hidden_units) = 3
  /\ {32, 128} \subseteq Elements(cfg.enc_hidden_units)
  /\ {32, 128} \subseteq Elements(cfg.dec_hidden_units)

\* C3: the loss is the negated batch mean of the per-example log_p_x minus
\* kl_term; it is the negation of the metric elbo, and the metric elbo is the
\* metric log_p_x minus the metric kl_term.
C3_LossIsNegMeanElbo ==
  pc = "built" =>
    /\ loss = RatNeg(ReduceMean([i \in 1..Len(log_p_x) |-> log_p_x[i] - kl_term[i]]))
    /\ loss = RatNeg(metrics.elbo)
    /\ metrics.elbo = RatSub(metrics.log_p_x, metrics.kl_term)

\* C3's case: a batch of two examples whose terms differ and whose KL term
\* does not vanish
C3_Witness ==
  /\ pc = "built"
  /\ Len(log_p_x) = 2
  /\ log_p_x[1] # log_p_x[2]
  /\ kl_term[1] # kl_term[2]
  /\ metrics.kl_term[1] # 0
  /\ loss[1] # 0

\* C4: with a malformed config no loss, metrics or module is ever produced;
\* the run goes on only until it ends in a KeyError or an IndexError.
C4_MalformedNeverYieldsLoss ==
  (pc # "idle" /\ Malformed(cfg)) =>
    /\ pc \notin {"b_return", "built"}
    /\ loss = NoLoss
    /\ metrics = NoMetrics
    /\ modules = <<>>
    /\ (pc = "error" => err \in {"KeyError", "IndexError"})
    /\ (pc # "error" => err = "none" /\ ENABLED NextBuild)

\* C4's case: the config lacks dec_hidden_units and the build failed in
\* decoder_fn, after the encoder was laid out
C4_Witness ==
  /\ pc = "error"
  /\ err = "KeyError"
  /\ "dec_hidden_units" \notin DOMAIN cfg
  /\ enc_units # <<>>
  /\ loss = NoLoss

\* C5: the encoder has as many layers as enc_hidden_units has entries: the
\* entries but the last, then twice the last.
C5_EncoderWidths ==
  enc_units # <<>> =>
    LET enc == cfg.enc_hidden_units IN
      /\ Len(enc_units) = Len(enc)
      /\ \A i \in 1..(Len(enc) - 1) : enc_units[i] = enc[i]
      /\ enc_units[Len(enc)] = 2 * enc[Len(enc)]
      /\ latent_size = enc[Len(enc)]

\* C5's case: a single entry gives one layer of twice the latent size
C5_Witness ==
  /\ pc = "built"
  /\ Len(cfg.enc_hidden_units) = 1
  /\ enc_units = <<2 * latent_size>>

\* C6: the decoder has one layer more than dec_hidden_units has entries: the
\* entries in order, then twice the flattened image size.
C6_DecoderWidths ==
  dec_units # <<>> =>
    LET dec == cfg.dec_hidden_units IN
      /\ Len(dec_units) = Len(dec) + 1
      /\ \A i \in 1..Len(dec) : dec_units[i] = dec[i]
      /\ dec_units[Len(dec) + 1] = 2 * flat_img[2]

\* C6's case: a decoder built from two entries
C6_Witness ==
  /\ pc = "built"
  /\ Len(cfg.dec_hidden_units) = 2
  /\ Len(dec_units) = 3
  /\ cfg.dec_hidden_units[1] # cfg.dec_hidden_units[2]

\* C7: the prior's parameters are zeros of shape [batch size, 2 * the last
\* entry of enc_hidden_units], as wide as the encoder's output layer.
C7_PriorShape ==
  prior # NoTensor =>
    /\ prior.fill = 0
    /\ prior.shape = <<flat_img[1], 2 * Last(cfg.enc_hidden_units)>>
    /\ (enc_units # <<>> => prior.shape[2] = Last(enc_units))

\* C7's case: a batch of two under a config of two encoder entries
C7_Witness ==
  /\ pc = "built"
  /\ flat_img[1] = 2
  /\ Len(cfg.enc_hidden_units) = 2
  /\ cfg.enc_hidden_units[1] # cfg.enc_hidden_units[2]
  /\ prior.shape[2] = Last(enc_units)

\* C8: the metrics have exactly the five keys and, wherever the logarithms
\* are of positive numbers, log_kl_term is the logarithm of the batch mean of
\* kl_term and log_neg_log_p_x is the logarithm of the negated batch mean of
\* log_p_x.
C8_LogNegLogPx ==
  (/\ pc = "built"
   /\ ReduceMean(kl_term)[1] > 0
   /\ ReduceMean(log_p_x)[1] < 0
   /\ metrics.elbo[1] < 0) =>
    /\ DOMAIN metrics = MetricKeys
    /\ metrics.log_kl_term = Log(ReduceMean(kl_term))
    /\ metrics.log_neg_log_p_x = Log(RatNeg(ReduceMean(log_p_x)))

\* C9: every config the sampler returned for a seed equals the first one it
\* returned for that seed, whatever was called in between.
C9_SameSeedSameCfg ==
  \A s \in Seeds : \A i \in 1..Len(returned[s]) : returned[s][i] = returned[s][1]

\* C9's case: a seed sampled twice, with another seed sampled and the
\* module-level generator drawn from meanwhile
C9_Witness ==
  /\ Len(returned[0]) = 2
  /\ Len(returned[1]) >= 1
  /\ returned[1][1] # returned[0][1]
  /\ globalRng # 0

\* C10: getting the task and building its model never changes the config,
\* and a later build lays out the same widths as the one before it.
C10_BuildLeavesCfg ==
  [][pc # "idle" =>
       /\ cfg' = cfg
       /\ (Len(modules') > Len(modules) /\ Len(modules) > 0
             => Last(modules') = Last(modules))]_vars

\* C10's case: the model was built a second time, on a batch of two
C10_Witness ==
  /\ pc = "built"
  /\ Len(modules) = 2
  /\ flat_img[1] = 2
  /\ Len(cfg.dec_hidden_units) >= 1

====
